---- MODULE Spec2Model ----
(***************************************************************************)
(* Model of its.device.ItsSession (pdk/apps/CameraITS/pymodules/its/       *)
(* device.py): the host-side session that talks to the ITS service over    *)
(* one TCP socket.  Two levels are modelled over one set of variables:     *)
(*   Spec      - the session: get_camera_properties, do_3a, do_capture,    *)
(*               the with-block around the session and __del__, with the   *)
(*               socket carrying whole messages;                           *)
(*   FrameSpec - __read_response_from_socket byte by byte.                 *)
(***************************************************************************)
EXTENDS Integers, Sequences, FiniteSets, TLC

\* ------------------------------------------------------------------ bounds
\* The largest list of capture requests, and the most image messages and the
\* most captureResults messages the service sends for one Command.
MaxReqs == 2
MaxSent == 3
\* The frames put on the wire, the longest payload of a frame, and the reads of
\* a closed socket that are followed.
MaxFrames == 2
MaxPayload == 2
MaxEmptyReads == 2

\* ------------------------------------------------------------ Python values
\* None, and a value that is not None.
None == <<>>
Some(v) == <<v>>
IsNone(o) == o = <<>>
Get(o) == o[1]

\* Tags are strings; a string is the sequence of its characters, so that the
\* slice of line 248 is computed.
S_cameraProperties == <<"c","a","m","e","r","a","P","r","o","p","e","r","t","i","e","s">>
S_jpegImage == <<"j","p","e","g","I","m","a","g","e">>
S_yuvImage == <<"y","u","v","I","m","a","g","e">>
S_captureResults == <<"c","a","p","t","u","r","e","R","e","s","u","l","t","s">>
S_aeResult == <<"a","e","R","e","s","u","l","t">>
S_afResult == <<"a","f","R","e","s","u","l","t">>
S_awbResult == <<"a","w","b","R","e","s","u","l","t">>
S_3aDone == <<"3","a","D","o","n","e">>
S_unknown == <<"b","o","g","u","s">>
S_jpeg == <<"j","p","e","g">>
S_yuv == <<"y","u","v">>

\* Exceptions, and the other ways a call ends.
Returned == "returned"
InvalidResponse == "its.error.Error: Invalid command response"
FailedToConverge == "its.error.Error: 3A failed to converge"
KeyError == "KeyError"
ValueError == "ValueError"
IndexError == "IndexError"
SocketTimeout == "socket.timeout"
Raised == {InvalidResponse, FailedToConverge, KeyError, ValueError, IndexError, SocketTimeout}

\* --------------------------------------------------- str.split, int, float
Digits == {"0","1","2","3","4","5","6","7","8","9"}
DigitVal(c) == CASE c = "0" -> 0 [] c = "1" -> 1 [] c = "2" -> 2 [] c = "3" -> 3
                 [] c = "4" -> 4 [] c = "5" -> 5 [] c = "6" -> 6 [] c = "7" -> 7
                 [] c = "8" -> 8 [] c = "9" -> 9

\* s.split(): the maximal runs of non-blank characters, in order.
RECURSIVE SplitFrom(_, _, _)
SplitFrom(s, i, cur) ==
    IF i > Len(s) THEN (IF cur = <<>> THEN <<>> ELSE <<cur>>)
    ELSE IF s[i] = " "
         THEN (IF cur = <<>> THEN <<>> ELSE <<cur>>) \o SplitFrom(s, i + 1, <<>>)
         ELSE SplitFrom(s, i + 1, Append(cur, s[i]))
Split(s) == SplitFrom(s, 1, <<>>)

RECURSIVE DigitsVal(_)
DigitsVal(t) == IF t = <<>> THEN 0 ELSE 10 * DigitsVal(SubSeq(t, 1, Len(t) - 1)) + DigitVal(t[Len(t)])

\* int(t) succeeds on a non-empty run of digits.
IsInt(t) == t # <<>> /\ \A i \in 1..Len(t) : t[i] \in Digits
IntOf(t) == DigitsVal(t)

\* float(t) succeeds on digits with at most one point and at least one digit.
\* The value is kept exactly, as <<m, e>> for m / 10^e, without trailing zeros.
DotCount(t) == Cardinality({i \in 1..Len(t) : t[i] = "."})
IsFloat(t) == /\ \A i \in 1..Len(t) : t[i] \in Digits \cup {"."}
              /\ DotCount(t) <= 1
              /\ \E i \in 1..Len(t) : t[i] \in Digits
RECURSIVE Normal(_)
Normal(f) == IF f[2] > 0 /\ f[1] % 10 = 0 THEN Normal(<<f[1] \div 10, f[2] - 1>>) ELSE f
DotAt(t) == CHOOSE i \in 1..Len(t) : t[i] = "."
FloatOf(t) ==
    IF DotCount(t) = 0 THEN <<DigitsVal(t), 0>>
    ELSE Normal(<<DigitsVal(SubSeq(t, 1, DotAt(t) - 1) \o SubSeq(t, DotAt(t) + 1, Len(t))),
                  Len(t) - DotAt(t)>>)

\* ---------------------------------------------------------------- messages
\* One response of the service as __read_response_from_socket returns it: the
\* JSON object (tag, strValue and objValue where present) and the buffer, which
\* is None unless the header carries bufValueSize.  stale tells that a Command
\* has been written since the service sent the message.
ObjValue(props, md, w, h) == [cameraProperties |-> props, captureResult |-> md, width |-> w, height |-> h]
Msg(tag, str, buf, obj) == [tag |-> tag, strValue |-> str, buf |-> buf, objValue |-> obj, stale |-> FALSE]

M_props == Msg(S_cameraProperties, None, None, Some(ObjValue(Some(7), None, None, None)))
M_props2 == Msg(S_cameraProperties, None, None, Some(ObjValue(Some(8), None, None, None)))
M_yuv == Msg(S_yuvImage, None, Some(<<1>>), None)
M_jpeg == Msg(S_jpegImage, None, Some(<<2>>), None)
M_jpegNoBuf == Msg(S_jpegImage, None, None, None)
M_res1 == Msg(S_captureResults, None, None, Some(ObjValue(None, Some(1), Some(640), Some(480))))
M_res2 == Msg(S_captureResults, None, None, Some(ObjValue(None, Some(2), Some(320), Some(240))))
M_ae1 == Msg(S_aeResult, Some(<<"1","0"," ","2">>), None, None)
M_ae2 == Msg(S_aeResult, Some(<<"3"," "," ","4">>), None, None)
M_aeShort == Msg(S_aeResult, Some(<<"5">>), None, None)
M_af == Msg(S_afResult, Some(<<"1",".","5"," ","9">>), None, None)
M_awb == Msg(S_awbResult, Some(<<"1"," ","2"," ","3"," ","4"," ","5"," ","6">>), None, None)
M_done == Msg(S_3aDone, Some(<<>>), None, None)
M_doneNoStr == Msg(S_3aDone, None, None, None)
M_unknown == Msg(S_unknown, Some(<<"0">>), None, None)

\* What the service may send in answer to a Command: the messages of that
\* procedure, well formed or not, and a message that belongs to no procedure.
Answers(name) ==
    CASE name = "getCameraProperties" -> {M_props, M_props2, M_unknown}
      [] name = "do3A" -> {M_ae1, M_ae2, M_aeShort, M_af, M_awb, M_done, M_doneNoStr, M_unknown}
      [] name = "doCapture" -> {M_yuv, M_jpeg, M_jpegNoBuf, M_res1, M_res2, M_unknown}

\* ------------------------------------------------------------------- state
VARIABLES
    sock,           \* self.sock: "open" until __del__ closes it
    scope,          \* the caller: "with" inside the with-block, "exited" after it
    exitBy,         \* how the with-block was left: "none", "normal", "exception"
    cmd,            \* the last Command written to the socket, None before the first
    stream,         \* the messages the service has sent that are still unread
    peerClosed,     \* the service has closed its end of the connection
    op,             \* the method executing: "none" or its name
    spinning,       \* the executing method is reading a closed, drained socket
    outcome,        \* how the last call ended: "none", Returned or an exception
    result,         \* what the last call returned
    do_ae, do_awb, do_af,
    ae_sens, ae_exp, awb_gains, awb_transform, af_dist,
    n, bufs, mds, fmts, width, height,
    args,           \* the arguments of the current call, or of the last one
    again,          \* the last Command written was not the first
    prev,           \* when the last two Commands are both getCameraProperties and the
                    \* first call returned: the message it read and what it returned
    \* history of the current call, for stating the properties
    imgLog,         \* the image messages carrying a buffer read so far, in order
    mdLog,          \* the metadata of the captureResults messages read so far, in order
    lastRes,        \* the last captureResults message read
    lastOf,         \* per 3A result tag, the last message of that tag read
    firstOf,        \* per 3A result tag, the first message of that tag read
    lastMsg,        \* the last message read
    sentImg, sentMd, sentAny, sentDone,   \* what the service sent for the last Command
    clean,          \* so far no call has ended by an exception and the service has
                    \* sent no message after completing an answer
    \* the frame reader, byte by byte (FrameSpec)
    wire,           \* the bytes sent to the socket and not yet received
    wireState,      \* the sender: "open", "stalled" (silent inside a frame), "closed"
    rpc,            \* __read_response_from_socket: "idle", "header", "payload" or
                    \* how it ended, "timeout" or ValueError
    chars,          \* line 85: what each recv(1) returned
    jobj,           \* line 89
    rn,             \* line 93: n, the bytes still to read
    rbuf,           \* lines 94-99: the bytes received into buf so far
    nbytes,         \* line 97: what the last recv_into returned, None before it
    frames,         \* what the calls have returned, in order
    sentFrames      \* the frames sent whole, in order

sessVars == <<sock, scope, exitBy, cmd, stream, peerClosed, op, spinning, outcome, result,
              do_ae, do_awb, do_af, ae_sens, ae_exp, awb_gains, awb_transform, af_dist,
              n, bufs, mds, fmts, width, height, args, again, prev,
              imgLog, mdLog, lastRes, lastOf, firstOf, lastMsg, sentImg, sentMd, sentAny, sentDone,
              clean>>
frameVars == <<wire, wireState, rpc, chars, jobj, rn, rbuf, nbytes, frames, sentFrames>>
vars == <<sessVars, frameVars>>

locals3a == <<do_ae, do_awb, do_af, ae_sens, ae_exp, awb_gains, awb_transform, af_dist>>
localsCap == <<n, bufs, mds, fmts, width, height>>
remoteVars == <<sentImg, sentMd, sentAny, sentDone>>
callerVars == <<sock, scope, exitBy>>
Args(ae, awb, af, list) == [do_ae |-> ae, do_awb |-> awb, do_af |-> af, isList |-> list]
NoArgs == Args(FALSE, FALSE, FALSE, FALSE)

NoMsg == Msg(<<>>, None, None, None)
NoLast == [t \in {S_aeResult, S_afResult, S_awbResult} |-> None]

\* The locals of a method that is not executing.
No3a ==
    /\ do_ae' = FALSE /\ do_awb' = FALSE /\ do_af' = FALSE
    /\ ae_sens' = None /\ ae_exp' = None /\ awb_gains' = None
    /\ awb_transform' = None /\ af_dist' = None
NoCap ==
    /\ n' = 0 /\ bufs' = <<>> /\ mds' = <<>> /\ fmts' = <<>>
    /\ width' = None /\ height' = None

FrameIdle ==
    /\ wire = <<>> /\ wireState = "open" /\ rpc = "idle" /\ chars = <<>>
    /\ jobj = None /\ rn = 0 /\ rbuf = <<>> /\ nbytes = None
    /\ frames = <<>> /\ sentFrames = <<>>

\* The state __init__ leaves (lines 62-71): the socket connected, nothing
\* written or read, the caller entering the with-block.
Init ==
    /\ sock = "open" /\ scope = "with" /\ exitBy = "none"
    /\ cmd = None /\ stream = <<>> /\ peerClosed = FALSE
    /\ op = "none" /\ spinning = FALSE /\ outcome = "none" /\ result = None
    /\ do_ae = FALSE /\ do_awb = FALSE /\ do_af = FALSE
    /\ ae_sens = None /\ ae_exp = None /\ awb_gains = None
    /\ awb_transform = None /\ af_dist = None
    /\ args = NoArgs /\ again = FALSE /\ prev = None
    /\ n = 0 /\ bufs = <<>> /\ mds = <<>> /\ fmts = <<>>
    /\ width = None /\ height = None
    /\ imgLog = <<>> /\ mdLog = <<>> /\ lastRes = NoMsg /\ lastOf = NoLast /\ firstOf = NoLast /\ lastMsg = NoMsg
    /\ sentImg = 0 /\ sentMd = 0 /\ sentAny = FALSE /\ sentDone = FALSE
    /\ clean = TRUE
    /\ FrameIdle

\* ------------------------------------------------- the caller and the service
\* A Command as written: its name, the number of capture requests, the two
\* triggers and the output surface, None when the key is not set.
Command(name, reqs, ae, af, surf) ==
    [cmdName |-> name, captureRequests |-> reqs, ae |-> ae, af |-> af, outputSurface |-> surf]
LastCmd == Get(cmd)

\* A method is called from inside the with-block, one call at a time.
CanCall == scope = "with" /\ op = "none"

\* self.sock.send(json.dumps(cmd) + "\n"): the Command goes out, whatever is
\* unread answers an earlier Command, and the service starts a new answer.
Send(c) ==
    /\ cmd' = Some(c)
    /\ again' = ~IsNone(cmd)
    /\ prev' = IF /\ c.cmdName = "getCameraProperties" /\ ~IsNone(cmd)
                  /\ LastCmd.cmdName = "getCameraProperties" /\ outcome = Returned
               THEN Some([msg |-> lastMsg, res |-> result])
               ELSE None
    /\ stream' = [i \in 1..Len(stream) |-> [stream[i] EXCEPT !.stale = TRUE]]
    /\ sentImg' = 0 /\ sentMd' = 0 /\ sentAny' = FALSE /\ sentDone' = FALSE
    /\ imgLog' = <<>> /\ mdLog' = <<>> /\ lastRes' = NoMsg /\ lastOf' = NoLast /\ firstOf' = NoLast /\ lastMsg' = NoMsg

\* The call ends: by return (out = Returned, res the value) or by an exception.
Finish(out, res) ==
    /\ op' = "none" /\ outcome' = out /\ result' = res
    /\ clean' = (clean /\ out \notin Raised)

\* The message a blocking read of the socket returns: the oldest unread one.
CanRead(name) == op = name /\ ~spinning /\ stream # <<>>

\* A read that leaves the message in the socket, as recv with MSG_PEEK does.
TakeByPeek(m) ==
    /\ stream' = stream
    /\ lastMsg' = m

Take(m) ==
    /\ stream' = Tail(stream)
    /\ lastMsg' = m

\* Line 246 without its test of the buffer.
IsImageAnyBuf(m) == m.tag \in {S_jpegImage, S_yuvImage}

\* Line 246: the message counts as an image.
IsImage(m) == m.tag \in {S_jpegImage, S_yuvImage} /\ ~IsNone(m.buf)

\* The answer of the service to the last Command is complete: one message for
\* getCameraProperties, 3aDone for do3A, N images and N captureResults for
\* doCapture.
AnswerComplete ==
    CASE LastCmd.cmdName = "getCameraProperties" -> sentAny
      [] LastCmd.cmdName = "do3A" -> sentDone
      [] LastCmd.cmdName = "doCapture" ->
            sentImg >= LastCmd.captureRequests /\ sentMd >= LastCmd.captureRequests

\* The service numbers what it captures: its k-th image message of an answer
\* carries buffer <<k>>, its k-th captureResults message the metadata k.
Stamp(m) ==
    IF m.tag \in {S_jpegImage, S_yuvImage} /\ ~IsNone(m.buf)
    THEN [m EXCEPT !.buf = Some(<<sentImg + 1>>)]
    ELSE IF m.tag = S_captureResults
    THEN [m EXCEPT !.objValue = Some([Get(m.objValue) EXCEPT !.captureResult = Some(sentMd + 1)])]
    ELSE m

\* The service sends one more message in answer to the last Command, while the
\* caller is in the with-block.  It sends stop-and-wait: the next message once
\* the one before it has been read.
RemoteSend(m) ==
    /\ ~IsNone(cmd) /\ ~peerClosed /\ stream = <<>>
    /\ scope = "with"
    /\ m \in Answers(LastCmd.cmdName)
    /\ m.tag \in {S_jpegImage, S_yuvImage} /\ ~IsNone(m.buf) => sentImg < MaxSent
    /\ m.tag = S_captureResults => sentMd < MaxSent
    /\ stream' = Append(stream, Stamp(m))
    /\ sentAny' = TRUE
    /\ sentImg' = IF m.tag \in {S_jpegImage, S_yuvImage} /\ ~IsNone(m.buf)
                  THEN sentImg + 1 ELSE sentImg
    /\ sentMd' = IF m.tag = S_captureResults THEN sentMd + 1 ELSE sentMd
    /\ sentDone' = (sentDone \/ m.tag = S_3aDone)
    /\ clean' = (clean /\ ~AnswerComplete)
    /\ UNCHANGED <<callerVars, cmd, peerClosed, op, spinning, outcome, result,
                   locals3a, localsCap, imgLog, mdLog, lastRes, lastOf, firstOf, lastMsg, args, again, prev, frameVars>>

\* The service closes the connection under a method that is executing.
RemoteClose ==
    /\ op # "none" /\ ~spinning /\ ~peerClosed
    /\ peerClosed' = TRUE
    /\ UNCHANGED <<callerVars, cmd, stream, op, spinning, outcome, result,
                   locals3a, localsCap, imgLog, mdLog, lastRes, lastOf, firstOf, lastMsg, remoteVars,
                   clean, args, again, prev, frameVars>>

\* Line 71 with the timeout caught and reported as a failure to converge.
ReadTimeoutAsFailure ==
    /\ op # "none" /\ ~spinning /\ stream = <<>> /\ ~peerClosed
    /\ Finish(FailedToConverge, None)
    /\ No3a /\ NoCap
    /\ UNCHANGED <<callerVars, cmd, stream, peerClosed, spinning,
                   imgLog, mdLog, lastRes, lastOf, firstOf, lastMsg, remoteVars, args, again, prev, frameVars>>

\* Line 71: a read with nothing to read for SOCK_TIMEOUT seconds raises
\* socket.timeout, which no method catches.
ReadTimeout ==
    /\ op # "none" /\ ~spinning /\ stream = <<>> /\ ~peerClosed
    /\ Finish(SocketTimeout, None)
    /\ No3a /\ NoCap
    /\ UNCHANGED <<callerVars, cmd, stream, peerClosed, spinning,
                   imgLog, mdLog, lastRes, lastOf, firstOf, lastMsg, remoteVars, args, again, prev, frameVars>>

\* Lines 86-87 and 96-99: on a closed, drained socket recv returns nothing at
\* once, and neither loop of __read_response_from_socket tests for it (see
\* FrameSpec): the method never comes back.
ReadClosed ==
    /\ op # "none" /\ ~spinning /\ stream = <<>> /\ peerClosed
    /\ spinning' = TRUE
    /\ UNCHANGED <<callerVars, cmd, stream, peerClosed, op, outcome, result,
                   locals3a, localsCap, imgLog, mdLog, lastRes, lastOf, firstOf, lastMsg, remoteVars,
                   clean, args, again, prev, frameVars>>

\* Lines 77-81: control leaves the with-block, normally or with the exception
\* of the last call; __exit__ does nothing and lets the exception through.
\* There is no current call any more, and its history is dropped.
Exit(by) ==
    /\ scope = "with" /\ op = "none"
    /\ by = "normal" \/ (by = "exception" /\ outcome \in Raised)
    /\ scope' = "exited" /\ exitBy' = by
    /\ imgLog' = <<>> /\ mdLog' = <<>> /\ lastRes' = NoMsg /\ lastOf' = NoLast /\ firstOf' = NoLast /\ lastMsg' = NoMsg
    /\ UNCHANGED <<sock, cmd, stream, peerClosed, op, spinning, outcome, result,
                   locals3a, localsCap, remoteVars, clean, args, again, prev, frameVars>>

\* Lines 73-75: __del__, run when the interpreter collects the session, at
\* some time after the caller has dropped it.
Del ==
    /\ scope = "exited" /\ sock = "open"
    /\ sock' = "closed"
    /\ UNCHANGED <<scope, exitBy, cmd, stream, peerClosed, op, spinning, outcome, result,
                   locals3a, localsCap, imgLog, mdLog, lastRes, lastOf, firstOf, lastMsg, remoteVars,
                   clean, args, again, prev, frameVars>>

\* ---------------------------------------------------- get_camera_properties
\* Lines 109-111: the Command is written; the method then blocks in the read.
Call_get_camera_properties ==
    /\ CanCall
    /\ Send(Command("getCameraProperties", 0, FALSE, FALSE, None))
    /\ args' = NoArgs
    /\ op' = "get_camera_properties" /\ outcome' = "none" /\ result' = None
    /\ UNCHANGED <<callerVars, peerClosed, spinning, locals3a, localsCap,
                   clean, frameVars>>

\* Lines 113-115 without the test of the tag.
PropsOutcomeAnyTag(m) ==
    IF IsNone(m.objValue) THEN KeyError
    ELSE IF IsNone(Get(m.objValue).cameraProperties) THEN KeyError
    ELSE Returned

\* Lines 113-115 on the message read.
PropsOutcome(m) ==
    IF m.tag # S_cameraProperties THEN InvalidResponse
    ELSE IF IsNone(m.objValue) THEN KeyError
    ELSE IF IsNone(Get(m.objValue).cameraProperties) THEN KeyError
    ELSE Returned
PropsValue(m) == Get(m.objValue).cameraProperties

\* Lines 112-115: one message is read and decides the call.
Read_get_camera_properties ==
    /\ CanRead("get_camera_properties")
    /\ LET m == Head(stream) IN
        /\ Take(m)
        /\ Finish(PropsOutcome(m), IF PropsOutcome(m) = Returned THEN PropsValue(m) ELSE None)
    /\ UNCHANGED <<callerVars, cmd, peerClosed, spinning, locals3a, localsCap,
                   imgLog, mdLog, lastRes, lastOf, firstOf, remoteVars, args, again, prev, frameVars>>

\* -------------------------------------------------------------------- do_3a
\* Lines 139-151: the Command is written (its triggers name AE and AF only)
\* and the five results start as None.
Call_do_3a(ae, awb, af) ==
    /\ CanCall
    /\ Send(Command("do3A", 0, ae, af, None))
    /\ args' = Args(ae, awb, af, FALSE)
    /\ op' = "do_3a" /\ outcome' = "none" /\ result' = None
    /\ do_ae' = ae /\ do_awb' = awb /\ do_af' = af
    /\ ae_sens' = None /\ ae_exp' = None /\ awb_gains' = None
    /\ awb_transform' = None /\ af_dist' = None
    /\ UNCHANGED <<callerVars, peerClosed, spinning, localsCap, clean, frameVars>>

Floats(s) == [i \in 1..Len(s) |-> FloatOf(s[i])]
AllInt(s) == \A i \in 1..Len(s) : IsInt(s[i])
AllFloat(s) == \A i \in 1..Len(s) : IsFloat(s[i])
Min(a, b) == IF a < b THEN a ELSE b

\* Line 156: ae_sens, ae_exp = [int(i) for i in vals]
AeOk(vals) == AllInt(vals) /\ Len(vals) = 2
AeSens(vals) == IntOf(vals[1])
AeExp(vals) == IntOf(vals[2])
\* Line 158: af_dist = float(vals[0])
AfDist(vals) == FloatOf(vals[1])
\* Lines 160-161: awb_gains from vals[:4], awb_transform from vals[4:]
AwbGains(vals) == Floats(SubSeq(vals, 1, Min(4, Len(vals))))
AwbTransform(vals) == Floats(SubSeq(vals, 5, Len(vals)))

\* Lines 155-165 with afResult leaving the loop as 3aDone does.
Branch3aAfEnds(tag) ==
    CASE tag = S_aeResult -> "ae"
      [] tag = S_afResult -> "done"
      [] tag = S_awbResult -> "awb"
      [] tag = S_3aDone -> "done"
      [] OTHER -> "else"

\* Lines 155-165: the branch the tag selects.
Branch3a(tag) ==
    CASE tag = S_aeResult -> "ae"
      [] tag = S_afResult -> "af"
      [] tag = S_awbResult -> "awb"
      [] tag = S_3aDone -> "done"
      [] OTHER -> "else"

\* Lines 154-165: the exception the message raises inside the loop, if any.
Raise3a(m) ==
    IF IsNone(m.strValue) THEN KeyError
    ELSE LET vals == Split(Get(m.strValue))
             b == Branch3a(m.tag) IN
         CASE b = "ae" -> IF AeOk(vals) THEN "none" ELSE ValueError
           [] b = "af" -> IF vals = <<>> THEN IndexError
                          ELSE IF IsFloat(vals[1]) THEN "none" ELSE ValueError
           [] b = "awb" -> IF AllFloat(vals) THEN "none" ELSE ValueError
           [] b = "done" -> "none"
           [] b = "else" -> InvalidResponse

\* Lines 166-167 with the test of AE alone.
NotConvergedAeOnly(ae, awb, af, sens, gains, dist) == ae /\ IsNone(sens)

\* Lines 166-167: a requested result is still None.
NotConverged(ae, awb, af, sens, gains, dist) ==
    (ae /\ IsNone(sens)) \/ (awb /\ IsNone(gains)) \/ (af /\ IsNone(dist))

\* Line 169
Result3a(sens, exp, gains, transform, dist) ==
    Some([ae_sens |-> sens, ae_exp |-> exp, awb_gains |-> gains,
          awb_transform |-> transform, af_dist |-> dist])

\* Lines 155-161 with a result kept once it is set.
Slots3aFirstKept(b, vals, old) ==
    [ae_sens |-> IF b = "ae" /\ IsNone(old.ae_sens) THEN Some(AeSens(vals)) ELSE old.ae_sens,
     ae_exp |-> IF b = "ae" /\ IsNone(old.ae_exp) THEN Some(AeExp(vals)) ELSE old.ae_exp,
     af_dist |-> IF b = "af" /\ IsNone(old.af_dist) THEN Some(AfDist(vals)) ELSE old.af_dist,
     awb_gains |-> IF b = "awb" /\ IsNone(old.awb_gains) THEN Some(AwbGains(vals)) ELSE old.awb_gains,
     awb_transform |-> IF b = "awb" /\ IsNone(old.awb_transform)
                       THEN Some(AwbTransform(vals)) ELSE old.awb_transform]

\* Lines 155-161 with line 156 storing the sensitivity alone.
Slots3aSensOnly(b, vals, old) ==
    [ae_sens |-> IF b = "ae" THEN Some(AeSens(vals)) ELSE old.ae_sens,
     ae_exp |-> old.ae_exp,
     af_dist |-> IF b = "af" THEN Some(AfDist(vals)) ELSE old.af_dist,
     awb_gains |-> IF b = "awb" THEN Some(AwbGains(vals)) ELSE old.awb_gains,
     awb_transform |-> IF b = "awb" THEN Some(AwbTransform(vals)) ELSE old.awb_transform]

\* Lines 155-161: the five results after the branch, old being those before
\* it.  An assignment replaces what the variable held.
Slots3a(b, vals, old) ==
    [ae_sens |-> IF b = "ae" THEN Some(AeSens(vals)) ELSE old.ae_sens,
     ae_exp |-> IF b = "ae" THEN Some(AeExp(vals)) ELSE old.ae_exp,
     af_dist |-> IF b = "af" THEN Some(AfDist(vals)) ELSE old.af_dist,
     awb_gains |-> IF b = "awb" THEN Some(AwbGains(vals)) ELSE old.awb_gains,
     awb_transform |-> IF b = "awb" THEN Some(AwbTransform(vals)) ELSE old.awb_transform]

\* Lines 152-169: one turn of the loop on the message read; on 3aDone the
\* loop is left and the call decided.
Read_do_3a ==
    /\ CanRead("do_3a")
    /\ LET m == Head(stream)
           b == Branch3a(m.tag)
           vals == Split(Get(m.strValue))
           new == Slots3a(b, vals, [ae_sens |-> ae_sens, ae_exp |-> ae_exp, af_dist |-> af_dist,
                                    awb_gains |-> awb_gains, awb_transform |-> awb_transform])
           sens == new.ae_sens
           exp == new.ae_exp
           dist == new.af_dist
           gains == new.awb_gains
           transform == new.awb_transform IN
        /\ Take(m)
        /\ IF Raise3a(m) # "none"
           THEN Finish(Raise3a(m), None) /\ No3a /\ UNCHANGED <<lastOf, firstOf>>
           ELSE /\ lastOf' = IF b \in {"ae", "af", "awb"} THEN [lastOf EXCEPT ![m.tag] = Some(m)]
                             ELSE lastOf
                /\ firstOf' = IF b \in {"ae", "af", "awb"} /\ IsNone(firstOf[m.tag])
                              THEN [firstOf EXCEPT ![m.tag] = Some(m)]
                              ELSE firstOf
                /\ IF b # "done"
                   THEN /\ ae_sens' = sens /\ ae_exp' = exp /\ af_dist' = dist
                        /\ awb_gains' = gains /\ awb_transform' = transform
                        /\ UNCHANGED <<do_ae, do_awb, do_af, op, outcome, result, clean>>
                   ELSE /\ No3a
                        /\ IF NotConverged(do_ae, do_awb, do_af, sens, gains, dist)
                           THEN Finish(FailedToConverge, None)
                           ELSE Finish(Returned, Result3a(sens, exp, gains, transform, dist))
    /\ UNCHANGED <<callerVars, cmd, peerClosed, spinning, localsCap,
                   imgLog, mdLog, lastRes, remoteVars, args, again, prev, frameVars>>

\* --------------------------------------------------------------- do_capture
\* Line 244 with <= for <.
MoreToReadOneMore(b, m, k) == Len(b) <= k \/ Len(m) <= k

\* Line 244: the loop goes on.
MoreToRead(b, m, k) == Len(b) < k \/ Len(m) < k

\* Line 248 with [:-4] for [:-5].
FmtOfDropFour(tag) == SubSeq(tag, 1, Len(tag) - 4)

\* Line 248: jsonObj['tag'][:-5]
FmtOf(tag) == SubSeq(tag, 1, Len(tag) - 5)

\* Lines 254-262 with the metadata taken from the other end of the list.
ObjsReversedMetadata(b, f, m, w, h, k) ==
    [i \in 1..k |-> [data |-> b[i], width |-> w, height |-> h, format |-> f[i],
                     metadata |-> m[k + 1 - i]]]

\* Lines 254-262: the i-th object takes the i-th buffer, format and metadata
\* collected, and the last width and height seen.
Objs(b, f, m, w, h, k) ==
    [i \in 1..k |-> [data |-> b[i], width |-> w, height |-> h, format |-> f[i], metadata |-> m[i]]]

\* Lines 257-263 with objs[0] taken to be there for an empty list.
IndexableFromZero(b, f, m, k) == k >= 0 /\ Len(b) >= k /\ Len(f) >= k /\ Len(m) >= k

\* Lines 257, 260, 261 and 263: the subscripts are in range; IndexError if not.
Indexable(b, f, m, k) == k >= 1 /\ Len(b) >= k /\ Len(f) >= k /\ Len(m) >= k

\* Line 263 with n>=1 for n>1.
CollapseFromOne(objs, k) == IF k >= 1 THEN objs ELSE objs[1]

\* Line 263: objs if n>1 else objs[0]
Collapse(objs, k) == IF k > 1 THEN objs ELSE objs[1]

\* Lines 178-180, 213-214 and 232-233: out_surface is None or names a size and a
\* format.
Surfaces == {None, Some([width |-> 320, height |-> 240, format |-> S_jpeg])}

\* Lines 226-243 (and 254-263 when there is nothing to wait for): the Command
\* is written with the request, or the list of requests, and the collections
\* start empty.  With an empty list the loop is not entered and objs[0] raises.
Call_do_capture(list, reqs, surf) ==
    /\ CanCall
    /\ reqs \in 0..MaxReqs /\ (~list => reqs = 1)
    /\ surf \in Surfaces
    /\ Send(Command("doCapture", reqs, FALSE, FALSE, surf))
    /\ args' = Args(FALSE, FALSE, FALSE, list)
    /\ IF MoreToRead(<<>>, <<>>, reqs) \/ Indexable(<<>>, <<>>, <<>>, reqs)
       THEN /\ op' = "do_capture" /\ outcome' = "none" /\ result' = None
            /\ n' = reqs
            /\ bufs' = <<>> /\ mds' = <<>> /\ fmts' = <<>> /\ width' = None /\ height' = None
            /\ UNCHANGED clean
       ELSE Finish(IndexError, None) /\ NoCap
    /\ UNCHANGED <<callerVars, peerClosed, spinning, locals3a, frameVars>>

\* Lines 249-252: what a captureResults message must carry.
HasResults(m) ==
    /\ ~IsNone(m.objValue)
    /\ ~IsNone(Get(m.objValue).captureResult)
    /\ ~IsNone(Get(m.objValue).width)
    /\ ~IsNone(Get(m.objValue).height)

\* Lines 244-263: one turn of the loop on the message read; when both
\* collections hold n elements the loop is left and the objects returned.
Read_do_capture ==
    /\ CanRead("do_capture")
    /\ LET m == Head(stream)
           img == IsImage(m)
           res == ~img /\ m.tag = S_captureResults
           nbufs == IF img THEN Append(bufs, m.buf) ELSE bufs
           nfmts == IF img THEN Append(fmts, FmtOf(m.tag)) ELSE fmts
           nmds == IF res THEN Append(mds, Get(Get(m.objValue).captureResult)) ELSE mds
           nwidth == IF res THEN Get(m.objValue).width ELSE width
           nheight == IF res THEN Get(m.objValue).height ELSE height IN
        /\ Take(m)
        /\ IF res /\ ~HasResults(m)
           THEN Finish(KeyError, None) /\ NoCap /\ UNCHANGED <<imgLog, mdLog, lastRes>>
           ELSE /\ imgLog' = IF m.tag \in {S_jpegImage, S_yuvImage} /\ ~IsNone(m.buf)
                             THEN Append(imgLog, [tag |-> m.tag, buf |-> m.buf]) ELSE imgLog
                /\ mdLog' = IF m.tag = S_captureResults
                            THEN Append(mdLog, Get(Get(m.objValue).captureResult)) ELSE mdLog
                /\ lastRes' = IF m.tag = S_captureResults THEN m ELSE lastRes
                /\ IF MoreToRead(nbufs, nmds, n)
                   THEN /\ bufs' = nbufs /\ fmts' = nfmts /\ mds' = nmds
                        /\ width' = nwidth /\ height' = nheight
                        /\ UNCHANGED <<n, op, outcome, result, clean>>
                   ELSE /\ NoCap
                        /\ IF Indexable(nbufs, nfmts, nmds, n)
                           THEN Finish(Returned, Some(Collapse(Objs(nbufs, nfmts, nmds, nwidth, nheight, n), n)))
                           ELSE Finish(IndexError, None)
    /\ UNCHANGED <<callerVars, cmd, peerClosed, spinning, locals3a,
                   lastOf, firstOf, remoteVars, args, again, prev, frameVars>>

\* --------------------------------------------------------------- the session
Next ==
    \/ Call_get_camera_properties
    \/ Read_get_camera_properties
    \/ \E ae \in BOOLEAN, awb \in BOOLEAN, af \in BOOLEAN : Call_do_3a(ae, awb, af)
    \/ Read_do_3a
    \/ \E list \in BOOLEAN, reqs \in 0..MaxReqs, surf \in Surfaces : Call_do_capture(list, reqs, surf)
    \/ Read_do_capture
    \/ \E name \in {"getCameraProperties", "do3A", "doCapture"} :
          \E m \in Answers(name) : RemoteSend(m)
    \/ RemoteClose
    \/ ReadTimeout
    \/ ReadClosed
    \/ \E by \in {"normal", "exception"} : Exit(by)
    \/ Del

Spec == Init /\ [][Next]_vars

\* ------------------------------------------- __read_response_from_socket
\* A frame on the wire: a JSON object on one line, then the bytes of the
\* buffer when the object gives bufValueSize.  The JSON text is cut down to
\* the braces and the size: {} or {b<size>}.
NL == "\n"
DigitChars == <<"0","1","2","3","4","5","6","7","8","9">>
Frame(size, payload) == [size |-> size, payload |-> payload]
HeaderOf(f) ==
    IF IsNone(f.size) THEN <<"{", "}", NL>>
    ELSE <<"{", "b", DigitChars[Get(f.size) + 1], "}", NL>>
Encode(f) == HeaderOf(f) \o f.payload

\* The frames the sender may send: no buffer, or a buffer of the size stated,
\* of bytes that may be newlines.
RECURSIVE SeqsOf(_, _)
SeqsOf(S, k) == IF k = 0 THEN {<<>>}
                ELSE {Append(q, x) : q \in SeqsOf(S, k - 1), x \in S}
Frames == {Frame(None, <<>>)} \cup
          UNION {{Frame(Some(k), p) : p \in SeqsOf({"x", NL}, k)} : k \in 0..MaxPayload}

\* Line 88: ''.join(chars)
RECURSIVE Join(_)
Join(c) == IF c = <<>> THEN <<>> ELSE Head(c) \o Join(Tail(c))

\* Line 89: json.loads(line) succeeds on a well-formed line.
IsJson(line) ==
    \/ line = <<"{", "}", NL>>
    \/ Len(line) = 5 /\ line[1] = "{" /\ line[2] = "b" /\ line[3] \in Digits
                     /\ line[4] = "}" /\ line[5] = NL
\* Lines 89, 92, 93: the object, with bufValueSize when the line has it.
Loads(line) == IF Len(line) = 5 THEN [bufValueSize |-> Some(DigitVal(line[3]))]
               ELSE [bufValueSize |-> None]

\* Line 86: the header loop goes on.
HeaderMore(c) == IF Len(c) = 0 THEN TRUE ELSE c[Len(c)] # <<NL>>
\* Line 96: the buffer loop goes on.
PayloadMore(k) == k > 0

\* The sender puts a whole frame on the wire.
SendFrame(f) ==
    /\ wireState = "open" /\ Len(sentFrames) < MaxFrames
    /\ wire' = wire \o Encode(f)
    /\ sentFrames' = Append(sentFrames, f)
    /\ UNCHANGED <<wireState, rpc, chars, jobj, rn, rbuf, nbytes, frames, sessVars>>

\* The sender puts the first k bytes of a frame on the wire, not all of it,
\* and then closes the connection or falls silent.
SendPart(f, k, then) ==
    /\ wireState = "open" /\ Len(sentFrames) < MaxFrames
    /\ k \in 0..(Len(Encode(f)) - 1)
    /\ wire' = wire \o SubSeq(Encode(f), 1, k)
    /\ wireState' = then
    /\ UNCHANGED <<rpc, chars, jobj, rn, rbuf, nbytes, frames, sentFrames, sessVars>>

\* Lines 83-85: the method is entered.
ReadBegin ==
    /\ rpc = "idle"
    /\ rpc' = "header" /\ chars' = <<>> /\ jobj' = None /\ rn' = 0 /\ rbuf' = <<>>
    /\ nbytes' = None
    /\ UNCHANGED <<wire, wireState, frames, sentFrames, sessVars>>

\* Lines 100-101: the method returns the object and the buffer, None when the
\* object has no bufValueSize.
Return(obj, buf) ==
    /\ frames' = Append(frames, [jobj |-> obj, buf |-> buf])
    /\ rpc' = "idle"

\* Lines 86-95: one recv(1) of the header loop.  It returns the next byte;
\* on a closed, drained socket it returns the empty string, which is appended
\* like a byte; with nothing sent it times out.  After the newline the line is
\* parsed and, when the object gives a size, the buffer allocated.
RecvHeader ==
    /\ rpc = "header" /\ HeaderMore(chars)
    /\ IF wire # <<>>
       THEN LET c == Append(chars, <<Head(wire)>>)
                line == Join(c) IN
            /\ wire' = Tail(wire) /\ chars' = c
            /\ IF HeaderMore(c)
               THEN UNCHANGED <<rpc, jobj, rn, rbuf, frames>>
               ELSE IF ~IsJson(line)
               THEN rpc' = ValueError /\ UNCHANGED <<jobj, rn, rbuf, frames>>
               ELSE /\ jobj' = Some(Loads(line))
                    /\ IF IsNone(Loads(line).bufValueSize)
                       THEN Return(Loads(line), None) /\ UNCHANGED <<rn, rbuf>>
                       ELSE /\ rn' = Get(Loads(line).bufValueSize)
                            /\ rbuf' = <<>>
                            /\ IF PayloadMore(Get(Loads(line).bufValueSize))
                               THEN rpc' = "payload" /\ UNCHANGED frames
                               ELSE Return(Loads(line), Some(<<>>))
       ELSE IF wireState = "closed"
       THEN /\ Len(chars) < MaxEmptyReads + 5
            /\ chars' = Append(chars, <<>>)
            /\ UNCHANGED <<wire, rpc, jobj, rn, rbuf, frames>>
       ELSE /\ rpc' = "timeout"
            /\ UNCHANGED <<wire, chars, jobj, rn, rbuf, frames>>
    /\ UNCHANGED <<wireState, nbytes, sentFrames, sessVars>>

\* Lines 96-100 with a single recv_into taken to fill the buffer.
RecvPayloadSingleRead(k) ==
    /\ rpc = "payload" /\ PayloadMore(rn)
    /\ IF wire # <<>>
       THEN /\ k \in 1..Min(rn, Len(wire))
            /\ nbytes' = Some(k)
            /\ wire' = SubSeq(wire, k + 1, Len(wire))
            /\ rn' = 0
            /\ rbuf' = <<>> /\ Return(Get(jobj), Some(rbuf \o SubSeq(wire, 1, k)))
       ELSE IF wireState = "closed"
       THEN /\ k = 0
            /\ nbytes' = Some(0)
            /\ UNCHANGED <<wire, rn, rbuf, rpc, frames>>
       ELSE /\ k = 0
            /\ rpc' = "timeout"
            /\ UNCHANGED <<wire, rn, rbuf, nbytes, frames>>
    /\ UNCHANGED <<wireState, chars, jobj, sentFrames, sessVars>>

\* Lines 96-100: one recv_into(view, n) of the buffer loop.  It returns k
\* bytes, at least one and at most n, of those that have arrived; on a closed,
\* drained socket it returns 0; with nothing sent it times out.
RecvPayload(k) ==
    /\ rpc = "payload" /\ PayloadMore(rn)
    /\ IF wire # <<>>
       THEN /\ k \in 1..Min(rn, Len(wire))
            /\ nbytes' = Some(k)
            /\ wire' = SubSeq(wire, k + 1, Len(wire))
            /\ rn' = rn - k
            /\ IF PayloadMore(rn - k)
               THEN rbuf' = rbuf \o SubSeq(wire, 1, k) /\ UNCHANGED <<rpc, frames>>
               ELSE rbuf' = <<>> /\ Return(Get(jobj), Some(rbuf \o SubSeq(wire, 1, k)))
       ELSE IF wireState = "closed"
       THEN /\ k = 0
            /\ nbytes' = Some(0)
            /\ UNCHANGED <<wire, rn, rbuf, rpc, frames>>
       ELSE /\ k = 0
            /\ rpc' = "timeout"
            /\ UNCHANGED <<wire, rn, rbuf, nbytes, frames>>
    /\ UNCHANGED <<wireState, chars, jobj, sentFrames, sessVars>>

FrameNext ==
    \/ \E f \in Frames : SendFrame(f)
    \/ \E f \in Frames, k \in 0..(MaxPayload + 4), then \in {"closed", "stalled"} : SendPart(f, k, then)
    \/ ReadBegin
    \/ RecvHeader
    \/ \E k \in 0..MaxPayload : RecvPayload(k)

FrameSpec == Init /\ [][FrameNext]_vars

\* ================================================================ properties
\* do_capture has returned to a caller that is still in the with-block.
CaptureReturned ==
    /\ ~IsNone(cmd) /\ LastCmd.cmdName = "doCapture"
    /\ scope = "with" /\ op = "none" /\ outcome = Returned
\* The number of capture requests of the last Command.
Requested == LastCmd.captureRequests
\* What do_capture returned, as a sequence: line 263 undone.
Results == IF Requested > 1 THEN Get(result) ELSE <<Get(result)>>
ObjFields == {"data", "width", "height", "format", "metadata"}

\* C1: a do_capture with N >= 1 requests that returns yields exactly N results,
\* each with image data that is not None, a format that is "yuv" or "jpeg", and
\* the width and height of the last captureResults message read.
C1_CaptureYieldsNResults ==
    CaptureReturned /\ Requested >= 1 =>
        /\ Len(Results) = Requested
        /\ lastRes # NoMsg
        /\ \A i \in 1..Requested :
              /\ DOMAIN Results[i] = ObjFields
              /\ ~IsNone(Results[i].data)
              /\ Results[i].format \in {S_yuv, S_jpeg}
              /\ Results[i].width = Get(lastRes.objValue).width
              /\ Results[i].height = Get(lastRes.objValue).height

\* A burst of two has returned, one image yuv and one jpeg, after the service
\* sent captureResults messages of two sizes.
C1_Witness ==
    /\ CaptureReturned /\ Requested = 2
    /\ Results[1].format # Results[2].format
    /\ Len(mdLog) = 3
    /\ Results[1].width = Some(320)

\* C2: in a burst that returns, result i holds the buffer of the i-th image
\* message read that carried one and the metadata of the i-th captureResults
\* message read, whatever the order in which the two kinds arrived.
C2_PairedByOrderWithinKind ==
    CaptureReturned /\ Requested >= 1 =>
        /\ Len(imgLog) >= Requested /\ Len(mdLog) >= Requested
        /\ \A i \in 1..Requested :
              /\ Results[i].data = imgLog[i].buf
              /\ Results[i].format = FmtOf(imgLog[i].tag)
              /\ Results[i].metadata = mdLog[i]

\* A burst of two has returned whose last message read was an image, after
\* three captureResults messages: no image arrived next to its metadata.
C2_Witness ==
    /\ CaptureReturned /\ Requested = 2
    /\ lastMsg.tag \in {S_jpegImage, S_yuvImage}
    /\ Len(mdLog) = 3 /\ Len(imgLog) = 2
    /\ Results[2].metadata = 2

\* The tags each procedure knows.
Recognized(name) ==
    CASE name = "getCameraProperties" -> {S_cameraProperties}
      [] name = "do3A" -> {S_aeResult, S_afResult, S_awbResult, S_3aDone}
      [] name = "doCapture" -> {S_jpegImage, S_yuvImage, S_captureResults}
\* The error a closed connection is to give.
TransportClosed == "TransportClosed"

\* C3: once do_3a or do_capture has read a message whose tag it does not know,
\* the call has ended with the protocol error.
C3_UnrecognizedTagRaises ==
    /\ scope = "with" /\ ~IsNone(cmd) /\ LastCmd.cmdName \in {"do3A", "doCapture"}
    /\ lastMsg # NoMsg /\ lastMsg.tag \notin Recognized(LastCmd.cmdName)
    => op = "none" /\ outcome = InvalidResponse

\* C4: once recv_into has returned 0 bytes inside the buffer, the read has
\* ended with TransportClosed; and no buffer is returned shorter than stated.
C4_TruncatedPayloadRaisesClosed ==
    /\ nbytes = Some(0) => rpc = TransportClosed
    /\ \A i \in 1..Len(frames) :
          ~IsNone(frames[i].buf) => Len(Get(frames[i].buf)) = Get(frames[i].jobj.bufValueSize)

\* C5: once recv has returned the empty string inside the header, the read has
\* ended with TransportClosed.
C5_ClosedInHeaderRaisesClosed ==
    chars # <<>> /\ chars[Len(chars)] = <<>> => rpc = TransportClosed

\* do_3a has ended, by return or by an exception, and the caller is still in
\* the with-block.
Ended3a ==
    /\ ~IsNone(cmd) /\ LastCmd.cmdName = "do3A"
    /\ scope = "with" /\ op = "none" /\ outcome # "none"
Returned3a == Ended3a /\ outcome = Returned

\* C6: what do_3a returns for a subsystem that was not requested is None.
C6_UnrequestedLeftUnset ==
    Returned3a =>
        /\ ~args.do_ae => IsNone(Get(result).ae_sens) /\ IsNone(Get(result).ae_exp)
        /\ ~args.do_awb => IsNone(Get(result).awb_gains) /\ IsNone(Get(result).awb_transform)
        /\ ~args.do_af => IsNone(Get(result).af_dist)

\* No result message has been read for some requested subsystem.
MissingRequested ==
    \/ args.do_ae /\ IsNone(lastOf[S_aeResult])
    \/ args.do_awb /\ IsNone(lastOf[S_awbResult])
    \/ args.do_af /\ IsNone(lastOf[S_afResult])

\* C7: do_3a ends with the convergence failure exactly when 3aDone has been
\* read with a requested subsystem unreported, and returns no result that
\* lacks a requested subsystem.
C7_FailsIffRequestedMissing ==
    Ended3a =>
        /\ outcome = FailedToConverge <=> (lastMsg.tag = S_3aDone /\ MissingRequested)
        /\ outcome = Returned =>
              /\ args.do_ae => ~IsNone(Get(result).ae_sens)
              /\ args.do_awb => ~IsNone(Get(result).awb_gains)
              /\ args.do_af => ~IsNone(Get(result).af_dist)

\* The numbers of the last message read with the tag.
ValsOf(tag) == Split(Get(Get(lastOf[tag]).strValue))

\* C8: with all three requested, after aeResult, awbResult and afResult, in
\* any order, and then 3aDone, do_3a returns the two integers of AE, the first
\* float of AF, the first four floats of AWB as gains and the rest as transform.
C8_AllThreeThenDone ==
    /\ Ended3a /\ args.do_ae /\ args.do_awb /\ args.do_af
    /\ lastMsg.tag = S_3aDone
    /\ ~IsNone(lastOf[S_aeResult]) /\ ~IsNone(lastOf[S_awbResult]) /\ ~IsNone(lastOf[S_afResult])
    /\ Len(ValsOf(S_awbResult)) >= 4
    => /\ outcome = Returned
       /\ Get(result).ae_sens = Some(IntOf(ValsOf(S_aeResult)[1]))
       /\ Get(result).ae_exp = Some(IntOf(ValsOf(S_aeResult)[2]))
       /\ Get(result).af_dist = Some(FloatOf(ValsOf(S_afResult)[1]))
       /\ Get(result).awb_gains = Some([i \in 1..4 |-> FloatOf(ValsOf(S_awbResult)[i])])
       /\ Get(result).awb_transform =
             Some([i \in 1..(Len(ValsOf(S_awbResult)) - 4) |-> FloatOf(ValsOf(S_awbResult)[i + 4])])

\* C9: once control has left the with-block, the socket is closed.
C9_SocketClosedOnExit == scope = "exited" => sock = "closed"

CaptureCalled == ~IsNone(cmd) /\ LastCmd.cmdName = "doCapture" /\ scope = "with"

\* C11: once do_capture has read more than N image messages, or more than N
\* captureResults messages, which it can only have done before both counts
\* reached N, the call has ended with the protocol error.
C11_SurplusIsFatal ==
    CaptureCalled /\ (Len(imgLog) > Requested \/ Len(mdLog) > Requested)
    => op = "none" /\ outcome = InvalidResponse

\* A result object, and a sequence of k result objects.  An object has five
\* fields, so the sizes tell the two apart before the domains are compared.
IsObj(r) == Cardinality(DOMAIN r) = Cardinality(ObjFields) /\ DOMAIN r = ObjFields
IsObjSeq(r, k) ==
    /\ k # Cardinality(ObjFields) /\ Cardinality(DOMAIN r) = k /\ DOMAIN r = 1..k
    /\ \A i \in 1..k : IsObj(r[i])

PropsCalled == ~IsNone(cmd) /\ LastCmd.cmdName = "getCameraProperties" /\ scope = "with"
PropsReturned == PropsCalled /\ op = "none" /\ outcome = Returned

\* C13: get_camera_properties writes the getCameraProperties Command and has
\* read nothing while it executes; the one read it makes takes one message and
\* ends the call, which returns the nested properties object when the tag is
\* cameraProperties and raises the protocol error, returning nothing, otherwise.
C13_PropertiesFromOneMessage ==
    /\ [](op = "get_camera_properties" =>
            /\ ~IsNone(cmd) /\ LastCmd.cmdName = "getCameraProperties"
            /\ lastMsg = NoMsg /\ outcome = "none" /\ result = None)
    /\ [](PropsCalled /\ op = "none" /\ lastMsg # NoMsg =>
            IF lastMsg.tag = S_cameraProperties
            THEN outcome = Returned /\ result = Get(lastMsg.objValue).cameraProperties
            ELSE outcome = InvalidResponse /\ result = None)
    /\ [][op = "get_camera_properties" /\ lastMsg' # lastMsg =>
            op' = "none" /\ stream' = Tail(stream)]_vars

\* A call, not the first of the session, has read a cameraProperties message
\* and returned its properties.
C13_Witness ==
    /\ PropsReturned /\ result = Some(8) /\ again
    /\ lastMsg.tag = S_cameraProperties /\ stream = <<>>

\* The same message, read as the answer to one Command or to a later one.
SameMsg(a, b) == [a EXCEPT !.stale = FALSE] = [b EXCEPT !.stale = FALSE]

\* C14: when get_camera_properties has returned twice in a row, in a session
\* where every call has returned and the service has sent its answers and
\* nothing else, and the second answer is the same message as the first, the
\* two results are equal and nothing is left unread in the socket.
C14_PropertiesTwiceSame ==
    PropsReturned /\ ~IsNone(prev) /\ clean /\ SameMsg(lastMsg, Get(prev).msg)
    => /\ result = Get(prev).res
       /\ stream = <<>>
       /\ ~lastMsg.stale

\* The second of two such calls has returned.
C14_Witness ==
    /\ PropsReturned /\ ~IsNone(prev) /\ clean /\ SameMsg(lastMsg, Get(prev).msg)
    /\ result = Some(8) /\ Get(prev).res = Some(8)

\* C15: do_3a has returned or raised the convergence failure only with 3aDone
\* as the last message read; and when it waits with nothing to read from a
\* service that stays silent, it ends with the timeout of the socket.
C15_SilenceIsTimeout ==
    /\ [](Ended3a /\ outcome \in {Returned, FailedToConverge} => lastMsg.tag = S_3aDone)
    /\ [](Ended3a /\ lastMsg.tag # S_3aDone /\ lastMsg.tag \in DOMAIN lastOf =>
            outcome \in {SocketTimeout, KeyError, ValueError, IndexError})
    /\ [][/\ op = "do_3a" /\ ~spinning /\ stream = <<>> /\ ~peerClosed
          /\ stream' = <<>> /\ ~peerClosed'
          => op' = "none" /\ outcome' = SocketTimeout]_vars

\* The service sent an AE result and then nothing: the call timed out.
C15_Witness ==
    /\ Ended3a /\ outcome = SocketTimeout
    /\ ~IsNone(lastOf[S_aeResult]) /\ lastMsg.tag = S_aeResult /\ ~sentDone

\* C16: a call that has not returned has given the caller nothing; a
\* do_capture that returned gave all N results, each with its data and
\* metadata; a do_3a that returned gave every value of every requested subsystem.
C16_NoPartialSuccess ==
    /\ ~IsNone(cmd) /\ scope = "with" /\ (op # "none" \/ outcome \in Raised) => IsNone(result)
    /\ CaptureReturned /\ Requested >= 1 =>
          /\ Len(Results) = Requested /\ Len(imgLog) >= Requested /\ Len(mdLog) >= Requested
          /\ \A i \in 1..Requested : ~IsNone(Results[i].data) /\ Results[i].metadata \in 1..MaxSent
    /\ Returned3a =>
          /\ args.do_ae => ~IsNone(Get(result).ae_sens) /\ ~IsNone(Get(result).ae_exp)
          /\ args.do_awb => ~IsNone(Get(result).awb_gains) /\ ~IsNone(Get(result).awb_transform)
          /\ args.do_af => ~IsNone(Get(result).af_dist)

\* A burst of two has timed out with one image collected, and the caller has
\* nothing.
C16_Witness ==
    /\ CaptureCalled /\ op = "none" /\ outcome = SocketTimeout
    /\ Requested = 2 /\ Len(imgLog) = 1 /\ IsNone(result)

\* The output surface of the last Command, and the format a tag names.
Surface == Get(LastCmd.outputSurface)
KindOf(tag) == IF tag = S_yuvImage THEN S_yuv ELSE S_jpeg
\* One request with an output surface has been answered by one image of the
\* format asked for and one captureResults of the size asked for.
AnsweredAsAsked ==
    /\ CaptureReturned /\ Requested = 1 /\ ~IsNone(LastCmd.outputSurface)
    /\ Len(imgLog) = 1 /\ Len(mdLog) = 1
    /\ KindOf(imgLog[1].tag) = Surface.format
    /\ Get(lastRes.objValue).width = Some(Surface.width)
    /\ Get(lastRes.objValue).height = Some(Surface.height)

\* C17: such a capture returns the format, width and height of the output
\* surface; and any capture that returns gives result i the format "yuv" when
\* the i-th image message collected is a yuvImage and "jpeg" when a jpegImage.
C17_FormatAndSizeAsAsked ==
    /\ AnsweredAsAsked =>
          /\ Get(result).format = Surface.format
          /\ Get(result).width = Some(Surface.width)
          /\ Get(result).height = Some(Surface.height)
    /\ CaptureReturned /\ Requested >= 1 =>
          \A i \in 1..Requested : Results[i].format = KindOf(imgLog[i].tag)

\* The captureResults came first and the image second.
C17_Witness == AnsweredAsAsked /\ lastMsg.tag = S_jpegImage /\ Get(result).format = S_jpeg

\* What a read returns for a frame, and the bytes of a sequence of frames.
Delivered(f) == [jobj |-> [bufValueSize |-> f.size],
                 buf |-> IF IsNone(f.size) THEN None ELSE Some(f.payload)]
RECURSIVE Flat(_)
Flat(fs) == IF fs = <<>> THEN <<>> ELSE Encode(Head(fs)) \o Flat(Tail(fs))
Unread == Flat(SubSeq(sentFrames, Len(frames) + 1, Len(sentFrames)))

\* C18: however recv_into splits the buffers, the reads have returned the
\* frames sent, in order, each buffer with the bytes sent for it; and between
\* two reads the socket holds exactly the bytes of the frames not yet returned,
\* then whatever was sent of an unfinished frame.
C18_FramingIgnoresSplits ==
    /\ Len(frames) <= Len(sentFrames)
    /\ \A i \in 1..Len(frames) : frames[i] = Delivered(sentFrames[i])
    /\ rpc = "idle" =>
          /\ Len(wire) >= Len(Unread) /\ SubSeq(wire, 1, Len(Unread)) = Unread
          /\ wireState = "open" => wire = Unread

\* Two frames have been returned, the second with a buffer of two bytes that
\* arrived in two reads.
C18_Witness ==
    /\ Len(frames) = 2 /\ rpc = "idle" /\ nbytes = Some(1)
    /\ frames[2].buf = Some(<<"x", NL>>) /\ ~IsNone(frames[1].buf)

\* C19: while do_capture executes, one of its two counts is below N; when it
\* has returned, the last message it read is the one that brought the second
\* count to N; and between calls nothing is read from the socket.
C19_LoopEndsAtN ==
    /\ [](op = "do_capture" => Len(bufs) < n \/ Len(mds) < n)
    /\ [](CaptureReturned /\ Requested >= 1 =>
            \/ /\ lastMsg.tag \in {S_jpegImage, S_yuvImage} /\ ~IsNone(lastMsg.buf)
               /\ Len(imgLog) = Requested /\ Len(mdLog) >= Requested
            \/ /\ lastMsg.tag = S_captureResults
               /\ Len(mdLog) = Requested /\ Len(imgLog) >= Requested)
    /\ [][op = "none" => Len(stream') >= Len(stream)]_vars

\* A burst of two has returned and a message the service sent afterwards lies
\* unread in the socket.
C19_Witness ==
    /\ CaptureReturned /\ Requested = 2
    /\ stream # <<>> /\ ~stream[1].stale /\ sentImg + sentMd > 4

\* C20: once do_3a has read a 3aDone message, with a strValue or without, the
\* loop has been left: the call has returned or raised the convergence failure.
C20_DoneAlwaysEndsLoop ==
    ~IsNone(cmd) /\ LastCmd.cmdName = "do3A" /\ scope = "with" /\ lastMsg.tag = S_3aDone
    => op = "none" /\ outcome \in {Returned, FailedToConverge}

\* The floats of the values i..j of the last message read with the tag.
FloatsOf(tag, i, j) == [k \in 1..(j - i + 1) |-> FloatOf(ValsOf(tag)[k + i - 1])]

\* C21: what do_3a returns for a subsystem is parsed from the last message of
\* that subsystem read before 3aDone, however many were read, and is None when
\* none was read.
C21_LastReportWins ==
    Returned3a =>
        /\ IF IsNone(lastOf[S_aeResult])
           THEN IsNone(Get(result).ae_sens) /\ IsNone(Get(result).ae_exp)
           ELSE /\ Get(result).ae_sens = Some(IntOf(ValsOf(S_aeResult)[1]))
                /\ Get(result).ae_exp = Some(IntOf(ValsOf(S_aeResult)[2]))
        /\ IF IsNone(lastOf[S_afResult])
           THEN IsNone(Get(result).af_dist)
           ELSE Get(result).af_dist = Some(FloatOf(ValsOf(S_afResult)[1]))
        /\ IF IsNone(lastOf[S_awbResult])
           THEN IsNone(Get(result).awb_gains) /\ IsNone(Get(result).awb_transform)
           ELSE /\ Get(result).awb_gains =
                      Some(FloatsOf(S_awbResult, 1, Min(4, Len(ValsOf(S_awbResult)))))
                /\ Get(result).awb_transform =
                      Some(FloatsOf(S_awbResult, 5, Len(ValsOf(S_awbResult))))

\* AE reported "10 2" first and "3  4" last, and do_3a returned 3 and 4.
C21_Witness ==
    /\ Returned3a /\ ~IsNone(firstOf[S_aeResult])
    /\ Get(firstOf[S_aeResult]).strValue = M_ae1.strValue
    /\ Get(lastOf[S_aeResult]).strValue = M_ae2.strValue
    /\ Get(result).ae_sens = Some(3) /\ Get(result).ae_exp = Some(4)

EmptyCapture == CaptureCalled /\ Requested = 0

\* C23: a do_capture with an empty list has written its Command, has ended
\* with IndexError, returning nothing, and has read no message; what the
\* service sends for it stays in the socket.
C23_EmptyListRaises ==
    /\ [](EmptyCapture =>
            /\ op = "none" /\ outcome = IndexError /\ IsNone(result)
            /\ lastMsg = NoMsg /\ imgLog = <<>> /\ mdLog = <<>>)
    /\ [][EmptyCapture /\ EmptyCapture' => Len(stream') >= Len(stream)]_vars

\* The service has answered the empty Command and the message lies unread.
C23_Witness ==
    /\ EmptyCapture /\ outcome = IndexError
    /\ stream # <<>> /\ ~stream[1].stale /\ stream[1].tag = S_captureResults
====
